---- MODULE Spec2Model ----
(***************************************************************************)
(* A model of st.py: the sliding-window rate aggregator, the progress      *)
(* Monitor, the download and upload asyncio protocols with their           *)
(* incremental response framing, and the orchestrators main / upload_main. *)
(*                                                                         *)
(* Time is counted in ticks of 0.1 s (the Monitor's report interval), so   *)
(* the default window of 1.0 s is 10 ticks.  Every handler runs at one     *)
(* instant: the clock reads inside one call return the same value.         *)
(* Bytes are one-character strings; a chunk is a sequence of bytes.         *)
(***************************************************************************)
EXTENDS Integers, Sequences, FiniteSets, TLC

VARIABLES now, monitor, stdout, conn, wire, served, env, main_task, hist

vars == <<now, monitor, stdout, conn, wire, served, env, main_task, hist>>

(***************************************************************************)
(* Bounds of the model.                                                    *)
(***************************************************************************)
\* The pool: main opens range(32) connections; the model opens PoolSize.
PoolSize == 2
\* Monitor durations 1..MaxDuration ticks are tried.
MaxDuration == 1
\* For direct calls of the Monitor and the window, the clock stops at MaxClock.
MaxClock == 3
\* SlidingWindow(window=w) is tried for w in 1..MaxWindow ticks.
MaxWindow == 2
\* Direct add() calls pass 1..MaxValue.
MaxValue == 2
\* Direct add()/value() harness calls stop after MaxCalls samples.
MaxCalls == 3
\* The server answers at most MaxResponses requests of the run.
MaxResponses == 2
\* The network cuts the stream inside a response at most MaxCuts times a run.
MaxCuts == 1
\* The peer closes at most MaxEofs connections of the run itself.
MaxEofs == 1
\* The declared Content-Length of the asset with a body.
BodyLen == 2
\* Length of url.path plus url.netloc in the upload request line.
UrlLen == 3

(***************************************************************************)
(* Program constants.                                                      *)
(***************************************************************************)
\* SlidingWindow.__init__(window=1.0), in ticks
DefaultWindow == 10
\* Monitor._report_interval = 0.1, in ticks
ReportInterval == 1
\* ticks per second: value() divides by the window in seconds
TicksPerSecond == 10
\* UploadSpeedProtocol._data = bytes(65536)
PayloadLen == 65536
\* the fixed characters of the POST request line and headers
PostTemplateLen == 68

\* Python's None, and an attribute that was never assigned
None == -1
Unset == -2

Conns == 1..PoolSize

Min(S) == CHOOSE x \in S : \A y \in S : x <= y

RECURSIVE SumSeq(_)
SumSeq(s) == IF s = <<>> THEN 0 ELSE s[1] + SumSeq(Tail(s))

(***************************************************************************)
(* SlidingWindow.  A window is [data, sum, window]; data is the deque of   *)
(* samples <<timestamp, value>>.                                           *)
(***************************************************************************)
NewSlidingWindow(w) == [data |-> <<>>, sum |-> 0, window |-> w]

\* a purge that also drops the sample exactly at the cutoff
PurgeExpiredInclusive(ts, cutoff) == ts <= cutoff

\* the "<" of _purge's loop condition
PurgeExpired(ts, cutoff) == ts < cutoff

RECURSIVE PurgeLoop(_, _)
PurgeLoop(w, cutoff) ==
    IF w.data # <<>> /\ PurgeExpired(w.data[1][1], cutoff)
    THEN PurgeLoop([w EXCEPT !.sum = @ - w.data[1][2], !.data = Tail(@)], cutoff)
    ELSE w

SlidingWindow_purge(w, t) == PurgeLoop(w, t - w.window)

\* value(): purge, then sum / window (window in seconds); returns the window
\* after the purge and the result
SlidingWindow_value(w, t) ==
    LET p == SlidingWindow_purge(w, t)
    IN  [w |-> p, result |-> (p.sum * TicksPerSecond) \div p.window]

SlidingWindow_add(w, value, t) ==
    SlidingWindow_purge(
        [w EXCEPT !.sum = @ + value, !.data = Append(@, <<t, value>>)], t)

(***************************************************************************)
(* Monitor.  add() works on the pair [m |-> the Monitor, out |-> stdout];  *)
(* stdout is the sequence of things printed: "rate" for a rate line,       *)
(* "newline" for the bare print().                                         *)
(***************************************************************************)
NewMonitor(context, duration, t) ==
    [context |-> context,
     report_interval |-> ReportInterval,
     runtime |-> duration,
     next_report |-> t + ReportInterval,
     end_time |-> t + duration,
     bytes_received |-> 0,
     running |-> TRUE,
     sliding_window |-> NewSlidingWindow(DefaultWindow)]

\* a deadline test that misses the call made exactly at the end time
DeadlineReachedStrict(t, end_time) == t > end_time

\* the "now >= self._end_time" of add
DeadlineReached(t, end_time) == t >= end_time

\* an add that returns early once the deadline has passed, dropping the count
Monitor_addLosingUpdate(M, n, t) ==
    [m |-> [M.m EXCEPT
              !.sliding_window = SlidingWindow_add(@, n, t),
              !.running = @ /\ t < M.m.end_time,
              !.bytes_received = IF t >= M.m.end_time THEN @ ELSE @ + n],
     out |-> M.out]

\* an add that prints the newline on every call once the deadline has passed
Monitor_addNewlineEachCall(M, n, t) ==
    LET m1 == [M.m EXCEPT !.sliding_window = SlidingWindow_add(@, n, t),
                          !.bytes_received = @ + n]
    IN  IF t >= m1.end_time
        THEN [m |-> [m1 EXCEPT !.running = FALSE], out |-> Append(M.out, "newline")]
        ELSE IF t >= m1.next_report
        THEN [m |-> [m1 EXCEPT !.next_report = @ + m1.report_interval],
              out |-> Append(M.out, "rate")]
        ELSE [m |-> m1, out |-> M.out]

\* an add that schedules the next report one interval after the current time
Monitor_addBackfilling(M, n, t) ==
    LET m1 == [M.m EXCEPT !.sliding_window = SlidingWindow_add(@, n, t),
                          !.bytes_received = @ + n]
    IN  IF t >= m1.end_time
        THEN [m |-> [m1 EXCEPT !.running = FALSE],
              out |-> IF m1.running THEN Append(M.out, "newline") ELSE M.out]
        ELSE IF t >= m1.next_report
        THEN [m |-> [m1 EXCEPT !.next_report = t + m1.report_interval],
              out |-> Append(M.out, "rate")]
        ELSE [m |-> m1, out |-> M.out]

Monitor_add(M, n, t) ==
    LET w1 == SlidingWindow_add(M.m.sliding_window, n, t)
        m1 == [M.m EXCEPT !.sliding_window = w1]
    IN  IF DeadlineReached(t, m1.end_time)
        THEN IF m1.running
             THEN [m |-> [m1 EXCEPT !.running = FALSE,
                                    !.bytes_received = @ + n],
                   out |-> Append(M.out, "newline")]
             ELSE [m |-> [m1 EXCEPT !.bytes_received = @ + n], out |-> M.out]
        ELSE IF t >= m1.next_report
             THEN LET v == SlidingWindow_value(m1.sliding_window, t)
                  IN  [m |-> [m1 EXCEPT !.sliding_window = v.w,
                                        !.next_report = @ + m1.report_interval,
                                        !.bytes_received = @ + n],
                       out |-> Append(M.out, "rate")]
             ELSE [m |-> [m1 EXCEPT !.bytes_received = @ + n], out |-> M.out]

(***************************************************************************)
(* Bytes: searching, the Content-Length pattern, decimal conversion.       *)
(***************************************************************************)
CR == "\r"
LF == "\n"
CRLFCRLF == <<CR, LF, CR, LF>>

\* the literal of the pattern rb'Content-Length: (\d+)'
ContentLengthField ==
    <<"C", "o", "n", "t", "e", "n", "t", "-", "L", "e", "n", "g", "t", "h", ":", " ">>

DigitChars == <<"0", "1", "2", "3", "4", "5", "6", "7", "8", "9">>

IsDigit(ch) == \E d \in 1..10 : DigitChars[d] = ch

DigitVal(ch) == (CHOOSE d \in 1..10 : DigitChars[d] = ch) - 1

\* int(b"...") on a run of digits
RECURSIVE ParseInt(_)
ParseInt(ds) ==
    IF ds = <<>> THEN 0
    ELSE ParseInt(SubSeq(ds, 1, Len(ds) - 1)) * 10 + DigitVal(ds[Len(ds)])

\* str(n) as bytes, as the server writes a length
RECURSIVE FormatInt(_)
FormatInt(n) ==
    IF n < 10 THEN <<DigitChars[n + 1]>>
    ELSE FormatInt(n \div 10) \o <<DigitChars[(n % 10) + 1]>>

\* buf.find(pat): the least 0-based offset at which pat occurs, or -1
Find(buf, pat) ==
    LET hits == {k \in 0..(Len(buf) - Len(pat)) :
                    SubSeq(buf, k + 1, k + Len(pat)) = pat}
    IN  IF hits = {} THEN -1 ELSE Min(hits)

\* the end (1-based, inclusive) of the run of digits that starts at index i
RECURSIVE DigitRunEnd(_, _)
DigitRunEnd(s, i) ==
    IF i + 1 <= Len(s) /\ IsDigit(s[i + 1]) THEN DigitRunEnd(s, i + 1) ELSE i

\* re.search(rb'Content-Length: (\d+)', header): int(match[1]), or None
ContentLengthMatch(header) ==
    LET n == Len(ContentLengthField)
        hits == {p \in 0..(Len(header) - n - 1) :
                    /\ SubSeq(header, p + 1, p + n) = ContentLengthField
                    /\ IsDigit(header[p + n + 1])}
    IN  IF hits = {} THEN None
        ELSE LET p == Min(hits)
             IN  ParseInt(SubSeq(header, p + n + 1, DigitRunEnd(header, p + n + 1)))

(***************************************************************************)
(* The protocols.  A connection is one record for the protocol object and  *)
(* its transport:                                                          *)
(*   state       "none" (not connected yet), "open", "closing" (the        *)
(*               transport is closing: connection_lost is scheduled),      *)
(*               "closed" (connection_lost has run)                        *)
(*   rx_mutable  whether rx_buffer is a bytearray (it is a bytes object    *)
(*               after "self.rx_buffer = data" with bytes data)            *)
(*   complete    the result of the future, None while it is pending        *)
(*   requests    the number of requests written to the transport           *)
(*   completions how often the test of line 102 / 161 succeeded            *)
(*   raised      data_received raised an exception                         *)
(*   close_called transport.close() was called by data_received            *)
(***************************************************************************)
DownloadSpeedProtocol ==
    [state |-> "none", rx_buffer |-> <<>>, rx_mutable |-> TRUE,
     header_received |-> FALSE, content_length |-> None,
     bytes_received |-> 0, content_bytes_received |-> 0, bytes_sent |-> 0,
     complete |-> None, requests |-> 0, completions |-> 0,
     raised |-> FALSE, close_called |-> FALSE]

UploadSpeedProtocol ==
    [state |-> "none", rx_buffer |-> <<>>, rx_mutable |-> TRUE,
     header_received |-> FALSE, content_length |-> Unset,
     bytes_received |-> 0, content_bytes_received |-> Unset, bytes_sent |-> 0,
     complete |-> None, requests |-> 0, completions |-> 0,
     raised |-> FALSE, close_called |-> FALSE]

\* an upload request counted without its request line and headers
UploadRequestLenPayloadOnly == PayloadLen

\* len(req) + len(self._data) of the upload request
UploadRequestLen == PostTemplateLen + UrlLen + PayloadLen

\* DownloadSpeedProtocol.request
Download_request(c) ==
    [c EXCEPT !.requests = @ + 1, !.header_received = FALSE]

\* UploadSpeedProtocol.request, on [c |-> connection, M |-> monitor and stdout]
Upload_request(S, t) ==
    [c |-> [S.c EXCEPT !.requests = @ + 1,
                       !.bytes_sent = @ + UploadRequestLen,
                       !.header_received = FALSE],
     M |-> Monitor_add(S.M, UploadRequestLen, t)]

Request(role, S, t) ==
    IF role = "Download" THEN [c |-> Download_request(S.c), M |-> S.M]
    ELSE Upload_request(S, t)

\* the offset find() must exceed for the header to count as received
HeaderFound(crlfcrlf) == crlfcrlf > -1

\* body bytes already in the buffer behind the header terminator
BodyInBuffer(buf, crlfcrlf) == Len(buf) - crlfcrlf - 4

\* lines 82-100 / 141-159: count body bytes, or buffer and look for the header
Framing(c, data, dtype) ==
    IF c.header_received
    THEN [c EXCEPT !.content_bytes_received = @ + Len(data)]
    ELSE IF c.rx_buffer # <<>> /\ ~c.rx_mutable
    THEN [c EXCEPT !.raised = TRUE]        \* bytes has no extend()
    ELSE LET buf == IF c.rx_buffer # <<>> THEN c.rx_buffer \o data ELSE data
             mut == IF c.rx_buffer # <<>> THEN c.rx_mutable
                    ELSE dtype = "bytearray"
             c1 == [c EXCEPT !.rx_buffer = buf, !.rx_mutable = mut]
             crlfcrlf == Find(buf, CRLFCRLF)
         IN  IF HeaderFound(crlfcrlf)
             THEN LET header == SubSeq(buf, 1, crlfcrlf + 2)
                      match == ContentLengthMatch(header)
                  IN  [c1 EXCEPT
                         !.header_received = TRUE,
                         !.content_length = IF match # None THEN match ELSE 0,
                         !.content_bytes_received = BodyInBuffer(buf, crlfcrlf)]
             ELSE c1

\* the test of lines 102 / 161
ResponseComplete(c) == c.content_bytes_received = c.content_length

\* lines 102-107 / 161-166
Completion(role, S, t) ==
    IF S.c.content_bytes_received = Unset
    THEN [c |-> [S.c EXCEPT !.raised = TRUE], M |-> S.M]   \* no such attribute
    ELSE IF ResponseComplete(S.c)
    THEN LET c1 == [S.c EXCEPT !.rx_buffer = <<>>, !.rx_mutable = TRUE,
                               !.completions = @ + 1]
         IN  IF S.M.m.running
             THEN Request(role, [c |-> c1, M |-> S.M], t)
             ELSE [c |-> [c1 EXCEPT !.close_called = TRUE, !.state = "closing"],
                   M |-> S.M]
    ELSE S

\* data_received of either protocol; an exception that escapes it makes the
\* transport close the connection (connection_lost follows)
Abort(S) == [c |-> [S.c EXCEPT !.state = "closing"], M |-> S.M]

DataReceived(role, S, data, t, dtype) ==
    LET S1 == IF role = "Download"
              THEN [c |-> [S.c EXCEPT !.bytes_received = @ + Len(data)],
                    M |-> Monitor_add(S.M, Len(data), t)]
              ELSE S
        c2 == Framing(S1.c, data, dtype)
    IN  IF c2.raised THEN Abort([c |-> c2, M |-> S1.M])
        ELSE LET S3 == Completion(role, [c |-> c2, M |-> S1.M], t)
             IN  IF S3.c.raised THEN Abort(S3) ELSE S3

\* connection_made
ConnectionMade(role, S, t) ==
    Request(role, [c |-> [S.c EXCEPT !.state = "open"], M |-> S.M], t)

\* a future resolved with the body bytes of the last response only
ConnectionResultBodyOnly(role, c) ==
    IF role = "Download" THEN c.content_bytes_received ELSE c.bytes_sent

\* connection_lost: the future gets the protocol's byte count
ConnectionResult(role, c) ==
    IF role = "Download" THEN c.bytes_received ELSE c.bytes_sent

\* a connection_lost that asks again on the dead transport
ConnectionLostOfRetrying(role, c) ==
    [c EXCEPT !.state = "closed", !.complete = ConnectionResult(role, c),
              !.requests = @ + 1]

ConnectionLostOf(role, c) ==
    [c EXCEPT !.state = "closed", !.complete = ConnectionResult(role, c)]

(***************************************************************************)
(* The environment: the server and the network.  Every request on a        *)
(* connection asks for the same URL, so the server answers each with the   *)
(* same response, env.resp:                                                *)
(*   "body"   Content-Length: BodyLen, then BodyLen body bytes             *)
(*   "zero"   Content-Length: 0, no body                                   *)
(*   "absent" a header block without a Content-Length field, no body       *)
(*   "nondigit" Content-Length: x (a value that is no number), no body     *)
(* env.dtype is the type of the chunks the transport passes to             *)
(* data_received: bytes from a selector transport, bytearray from a        *)
(* proactor transport.                                                     *)
(***************************************************************************)
RespKinds == {"body", "zero", "absent", "nondigit"}

RECURSIVE Body(_)
Body(n) == IF n = 0 THEN <<>> ELSE <<"x">> \o Body(n - 1)

HeaderBlock(kind) ==
    CASE kind = "body"     -> ContentLengthField \o FormatInt(BodyLen) \o CRLFCRLF
      [] kind = "zero"     -> ContentLengthField \o FormatInt(0) \o CRLFCRLF
      [] kind = "absent"   -> <<"O", "K">> \o CRLFCRLF
      [] kind = "nondigit" -> ContentLengthField \o <<"x">> \o CRLFCRLF

DeclaredLen(kind) == IF kind = "body" THEN BodyLen ELSE 0

ResponseBytes(kind) == HeaderBlock(kind) \o Body(DeclaredLen(kind))

HeaderLen == Len(HeaderBlock(env.resp))
RespLen == Len(ResponseBytes(env.resp))

\* The places inside one response where the network may cut the stream:
\* behind the first byte, inside the header terminator, behind the header
\* block and behind every body byte.
SplitPoints ==
    {1, HeaderLen - 2, HeaderLen} \cup {o \in 1..(RespLen - 1) : o > HeaderLen}

\* where in a response a chunk of k bytes ends: 0 at the end of a response
EndOffset(i, k) == (hist.delivered[i] + k) % RespLen

\* chunk sizes that end at the end of a response or, while the network may
\* still cut, at a split point
ChunkSizes(i) ==
    {k \in 1..Len(wire[i]) :
        \/ EndOffset(i, k) = 0
        \/ EndOffset(i, k) \in SplitPoints /\ hist.cuts < MaxCuts}

\* the coarse network of the pool: a chunk is one byte of a response's header
\* or everything up to the end of a response
CoarseChunkSizes(i) == {k \in ChunkSizes(i) : EndOffset(i, k) \in {0, 1}}

(***************************************************************************)
(* The state.                                                              *)
(*   now        the monotonic clock, in ticks                              *)
(*   monitor    the Monitor of the run                                     *)
(*   stdout     what the Monitor printed                                   *)
(*   conn       the pool's protocol objects and transports                 *)
(*   wire       per connection, the response bytes sent and not yet read   *)
(*   served     per connection, the number of responses the server sent    *)
(*   env        role ("Download" for main, "Upload" for upload_main), the  *)
(*              server's response and the chunk type                       *)
(*   main_task  the orchestrator: pc, the next pool member, the result     *)
(*   hist       history: every sample ever added to the window, the time   *)
(*              of the latest window call, the latest value() call (its    *)
(*              time, its result, the number of samples added before it),  *)
(*              bytes delivered per connection, how often the network cut  *)
(*              inside a response, how many connections the peer closed,   *)
(*              and the pool members whose connect failed                  *)
(***************************************************************************)
NewHist ==
    [samples |-> <<>>, last_call |-> None,
     last_value |-> [t |-> None, result |-> None, n |-> 0],
     delivered |-> [i \in Conns |-> 0], cuts |-> 0, eofs |-> 0, failed |-> {}]

InitWith(durations, windows, resps, dtypes) ==
    /\ now = 0
    /\ env \in [role : {"Download", "Upload"}, resp : resps, dtype : dtypes]
    /\ \E d \in durations, w \in windows :
          monitor = [NewMonitor(env.role, d, 0) EXCEPT
                        !.sliding_window = NewSlidingWindow(w)]
    /\ stdout = <<>>
    /\ conn = [i \in Conns |->
                 IF env.role = "Download" THEN DownloadSpeedProtocol
                 ELSE UploadSpeedProtocol]
    /\ wire = [i \in Conns |-> <<>>]
    /\ served = [i \in Conns |-> 0]
    /\ main_task = [pc |-> "creating", next |-> 1, result |-> None]
    /\ hist = NewHist

\* main / upload_main: Monitor(context, duration) with the default window;
\* the pool fetches the asset that has a body
Init == InitWith(1..MaxDuration, {DefaultWindow}, {"body"}, {"bytes", "bytearray"})

\* the same against every kind of response
InitFramer ==
    InitWith(1..MaxDuration, {DefaultWindow}, RespKinds, {"bytes", "bytearray"})

\* the event loop runs callbacks while main is creating the pool or waiting
LoopRunning == main_task.pc \in {"creating", "gathering"}

\* history of a step that took the Monitor from m0 to m1 at time t
Noted(h, m0, m1, t) ==
    IF m1.bytes_received # m0.bytes_received
    THEN [h EXCEPT
            !.samples = Append(@, <<t, m1.bytes_received - m0.bytes_received>>),
            !.last_call = t]
    ELSE h

(***************************************************************************)
(* Actions.                                                                *)
(***************************************************************************)
TickTo(limit) ==
    /\ now < limit
    /\ now' = now + 1
    /\ UNCHANGED <<monitor, stdout, conn, wire, served, env, main_task, hist>>

\* While connections run the clock is followed up to the deadline: what a
\* handler does at a later time it does at the deadline.
Tick == TickTo(monitor.end_time)

\* "await create_downloader / create_uploader" succeeds for the next pool
\* member: the protocol is connected and connection_made sends the request
CreateConnection ==
    /\ main_task.pc = "creating"
    /\ LET i == main_task.next
           S == ConnectionMade(env.role,
                    [c |-> conn[i], M |-> [m |-> monitor, out |-> stdout]], now)
       IN  /\ conn' = [conn EXCEPT ![i] = S.c]
           /\ monitor' = S.M.m
           /\ stdout' = S.M.out
           /\ hist' = Noted(hist, monitor, S.M.m, now)
           /\ main_task' = [main_task EXCEPT
                              !.next = i + 1,
                              !.pc = IF i = PoolSize THEN "gathering" ELSE @]
    /\ UNCHANGED <<now, wire, served, env>>

\* loop.create_connection raises: the exception leaves the comprehension of
\* line 193 / 199 and main; asyncio.run closes the loop
ConnectFail ==
    /\ main_task.pc = "creating"
    /\ main_task' = [main_task EXCEPT !.pc = "raised"]
    /\ hist' = [hist EXCEPT !.failed = @ \cup {main_task.next}]
    /\ UNCHANGED <<now, monitor, stdout, conn, wire, served, env>>

\* the server answers the next request it has read
ServerRespond(i) ==
    /\ LoopRunning
    /\ conn[i].state = "open"
    /\ served[i] < conn[i].requests
    /\ SumSeq(served) < MaxResponses
    /\ served' = [served EXCEPT ![i] = @ + 1]
    /\ wire' = [wire EXCEPT ![i] = @ \o ResponseBytes(env.resp)]
    /\ UNCHANGED <<hist, now, monitor, stdout, conn, env, main_task>>

\* the transport reads k bytes and calls data_received
Deliver(i, k) ==
    /\ LoopRunning
    /\ conn[i].state = "open"
    /\ LET data == SubSeq(wire[i], 1, k)
           S == DataReceived(env.role,
                    [c |-> conn[i], M |-> [m |-> monitor, out |-> stdout]],
                    data, now, env.dtype)
       IN  /\ conn' = [conn EXCEPT ![i] = S.c]
           /\ monitor' = S.M.m
           /\ stdout' = S.M.out
           /\ wire' = [wire EXCEPT ![i] = SubSeq(@, k + 1, Len(@))]
           /\ hist' = [Noted(hist, monitor, S.M.m, now) EXCEPT
                          !.delivered[i] = @ + k,
                          !.cuts = IF EndOffset(i, k) = 0 THEN @ ELSE @ + 1]
    /\ UNCHANGED <<now, served, env, main_task>>

NetworkDeliver(i) == \E k \in ChunkSizes(i) : Deliver(i, k)

CoarseDeliver(i) == \E k \in CoarseChunkSizes(i) : Deliver(i, k)

\* the peer closes, and what it sent before was read: everything it was to
\* send, or a response cut short (the rest never arrives).  eof_received
\* returns False and the transport closes itself
EofReceived(i) ==
    /\ LoopRunning
    /\ conn[i].state = "open"
    /\ wire[i] = <<>> \/ hist.delivered[i] % RespLen # 0
    /\ hist.eofs < MaxEofs
    /\ conn' = [conn EXCEPT ![i].state = "closing"]
    /\ wire' = [wire EXCEPT ![i] = <<>>]
    /\ hist' = [hist EXCEPT !.eofs = @ + 1]
    /\ UNCHANGED <<now, monitor, stdout, served, env, main_task>>

\* the transport calls connection_lost
ConnectionLost(i) ==
    /\ LoopRunning
    /\ conn[i].state = "closing"
    /\ conn' = [conn EXCEPT ![i] = ConnectionLostOf(env.role, conn[i])]
    /\ wire' = [wire EXCEPT ![i] = <<>>]
    /\ UNCHANGED <<hist, now, monitor, stdout, served, env, main_task>>

\* sum(await asyncio.gather(*downloaders))
RECURSIVE SumResults(_, _)
SumResults(c, n) == IF n = 0 THEN 0 ELSE c[n].complete + SumResults(c, n - 1)

GatherResult(c) == SumResults(c, PoolSize)

Return ==
    /\ main_task.pc = "gathering"
    /\ \A i \in Conns : conn[i].complete # None
    /\ main_task' = [main_task EXCEPT !.pc = "returned", !.result = GatherResult(conn)]
    /\ UNCHANGED <<hist, now, monitor, stdout, conn, wire, served, env>>

\* The run: the pool against the server over the coarse network.
Next ==
    \/ Tick
    \/ CreateConnection
    \/ ConnectFail
    \/ \E i \in Conns : ServerRespond(i)
    \/ \E i \in Conns : CoarseDeliver(i)
    \/ \E i \in Conns : EofReceived(i)
    \/ \E i \in Conns : ConnectionLost(i)
    \/ Return

Spec == Init /\ [][Next]_vars

\* One connection of the pool against the server, the network cutting the
\* stream at every split point, while the pool's second member is still
\* being connected.
FirstConnection == main_task.next = 1 /\ CreateConnection

NextFramer ==
    \/ Tick
    \/ FirstConnection
    \/ ServerRespond(1)
    \/ NetworkDeliver(1)
    \/ EofReceived(1)
    \/ ConnectionLost(1)

SpecFramer == InitFramer /\ [][NextFramer]_vars

(***************************************************************************)
(* Direct calls of the Monitor and of the window, at any times.            *)
(***************************************************************************)
ClockTick == TickTo(MaxClock)

\* monitor.add(n)
CallAdd ==
    /\ Len(hist.samples) < MaxCalls
    /\ \E n \in 1..MaxValue :
          LET M == Monitor_add([m |-> monitor, out |-> stdout], n, now)
          IN  /\ monitor' = M.m
              /\ stdout' = M.out
              /\ hist' = Noted(hist, monitor, M.m, now)
    /\ UNCHANGED <<now, conn, wire, served, env, main_task>>

InitMonitor == InitWith(1..MaxClock, {DefaultWindow}, {"body"}, {"bytes"})

NextMonitor == ClockTick \/ CallAdd

SpecMonitor == InitMonitor /\ [][NextMonitor]_vars

\* sliding_window.add(v)
WindowAdd ==
    /\ Len(hist.samples) < MaxCalls
    /\ \E v \in 1..MaxValue :
          /\ monitor' = [monitor EXCEPT
                           !.sliding_window = SlidingWindow_add(@, v, now)]
          /\ hist' = [hist EXCEPT !.samples = Append(@, <<now, v>>),
                                  !.last_call = now]
    /\ UNCHANGED <<now, stdout, conn, wire, served, env, main_task>>

\* sliding_window.value()
WindowValue ==
    /\ LET v == SlidingWindow_value(monitor.sliding_window, now)
       IN  /\ monitor' = [monitor EXCEPT !.sliding_window = v.w]
           /\ hist' = [hist EXCEPT
                          !.last_call = now,
                          !.last_value = [t |-> now, result |-> v.result,
                                          n |-> Len(hist.samples)]]
    /\ UNCHANGED <<now, stdout, conn, wire, served, env, main_task>>

InitWindow == InitWith({MaxClock}, 1..MaxWindow, {"body"}, {"bytes"})

NextWindow == ClockTick \/ WindowAdd \/ WindowValue

SpecWindow == InitWindow /\ [][NextWindow]_vars

(***************************************************************************)
(* The two framers side by side: connection 1 is a DownloadSpeedProtocol,  *)
(* connection 2 an UploadSpeedProtocol, both freshly connected and both    *)
(* handed every chunk of the one response stream wire[1].  They share the  *)
(* Monitor, so both read the same running flag.                            *)
(***************************************************************************)
InitMirror ==
    /\ now = 0
    /\ env \in [role : {"Download"}, resp : RespKinds, dtype : {"bytes", "bytearray"}]
    /\ \E d \in 1..MaxDuration : monitor = NewMonitor(env.role, d, 0)
    /\ stdout = <<>>
    /\ conn = [i \in Conns |->
                 IF i = 1 THEN DownloadSpeedProtocol ELSE UploadSpeedProtocol]
    /\ wire = [i \in Conns |-> <<>>]
    /\ served = [i \in Conns |-> 0]
    /\ main_task = [pc |-> "creating", next |-> 1, result |-> None]
    /\ hist = NewHist

\* connection_made of both protocols
MirrorConnect ==
    /\ main_task.pc = "creating"
    /\ LET M0 == [m |-> monitor, out |-> stdout]
           S1 == ConnectionMade("Download", [c |-> conn[1], M |-> M0], now)
           S2 == ConnectionMade("Upload", [c |-> conn[2], M |-> S1.M], now)
       IN  /\ conn' = [conn EXCEPT ![1] = S1.c, ![2] = S2.c]
           /\ monitor' = S2.M.m
           /\ stdout' = S2.M.out
           /\ hist' = Noted(hist, monitor, S2.M.m, now)
    /\ main_task' = [main_task EXCEPT !.pc = "gathering"]
    /\ UNCHANGED <<now, wire, served, env>>

\* data_received of both protocols with the same chunk (of the upload
\* protocol for as long as its transport is open)
MirrorDeliver ==
    /\ LoopRunning
    /\ conn[1].state = "open"
    /\ \E k \in ChunkSizes(1) :
          LET data == SubSeq(wire[1], 1, k)
              M0 == [m |-> monitor, out |-> stdout]
              S1 == DataReceived("Download", [c |-> conn[1], M |-> M0],
                                 data, now, env.dtype)
              S2 == IF conn[2].state = "open"
                    THEN DataReceived("Upload", [c |-> conn[2], M |-> S1.M],
                                      data, now, env.dtype)
                    ELSE [c |-> conn[2], M |-> S1.M]
          IN  /\ conn' = [conn EXCEPT ![1] = S1.c, ![2] = S2.c]
              /\ monitor' = S2.M.m
              /\ stdout' = S2.M.out
              /\ wire' = [wire EXCEPT ![1] = SubSeq(@, k + 1, Len(@))]
              /\ hist' = [Noted(hist, monitor, S2.M.m, now) EXCEPT
                             !.delivered[1] = @ + k,
                             !.cuts = IF EndOffset(1, k) = 0 THEN @ ELSE @ + 1]
    /\ UNCHANGED <<now, served, env, main_task>>

NextMirror ==
    \/ Tick
    \/ MirrorConnect
    \/ ServerRespond(1)
    \/ MirrorDeliver

SpecMirror == InitMirror /\ [][NextMirror]_vars

(***************************************************************************)
(* Properties.                                                             *)
(***************************************************************************)
\* the time of the latest add(), None before the first
LastAddTime ==
    IF hist.samples = <<>> THEN None ELSE hist.samples[Len(hist.samples)][1]

C2_FlagFollowsLastAdd ==
    IF LastAddTime = None THEN monitor.running
    ELSE monitor.running <=> (LastAddTime < monitor.end_time)

C2_FlagStep ==
    /\ ~monitor.running => ~monitor'.running
    /\ (monitor.running /\ ~monitor'.running) =>
          /\ Len(hist'.samples) = Len(hist.samples) + 1
          /\ now >= monitor.end_time
          /\ \A k \in 1..Len(hist.samples) : hist.samples[k][1] < monitor.end_time

\* C2: Monitor running flag, single transition.  After every add() made
\* before the end time running is true, after every add() made at or after the
\* end time it is false; the flag falls on exactly the first add() whose time
\* is >= the end time (an add, at such a time, with every earlier add before
\* the end time), and once false it never becomes true again.
C2_RunningFlagSingleTransition == []C2_FlagFollowsLastAdd /\ [][C2_FlagStep]_vars

\* an add before the end time, one exactly at it and one after it
C2_Witness ==
    /\ Len(hist.samples) >= 3
    /\ hist.samples[1][1] < monitor.end_time
    /\ hist.samples[2][1] = monitor.end_time
    /\ hist.samples[3][1] > monitor.end_time
    /\ ~monitor.running

\* the samples of the history with a timestamp >= t - window
InWindow(t) ==
    SelectSeq(hist.samples, LAMBDA smp : smp[1] >= t - monitor.sliding_window.window)

RECURSIVE SumValues(_)
SumValues(smps) == IF smps = <<>> THEN 0 ELSE smps[1][2] + SumValues(Tail(smps))

\* C3: RateWindow sum invariant.  After each add(v) or value() call, made at
\* time t, the buffer holds exactly the samples added with a timestamp
\* >= t - window and the running sum is the exact sum of their values; a
\* value() call with no sample inside the window (a gap longer than the window
\* since the last add, or a window never written) returns exactly 0.
C3_WindowSumInvariant ==
    LET w == monitor.sliding_window
        v == hist.last_value
    IN  /\ IF hist.last_call = None
           THEN w.data = <<>> /\ w.sum = 0
           ELSE /\ w.data = InWindow(hist.last_call)
                /\ w.sum = SumValues(InWindow(hist.last_call))
        /\ (/\ v.t # None
            /\ \A k \in 1..v.n : hist.samples[k][1] < v.t - w.window)
              => v.result = 0

\* value() returned 0 after a gap longer than the window, and a later add left
\* a buffer that holds some but not all of the samples ever added
C3_Witness ==
    /\ hist.last_value.t # None
    /\ hist.last_value.n >= 1
    /\ hist.last_value.result = 0
    /\ hist.last_call = now
    /\ Len(monitor.sliding_window.data) >= 1
    /\ Len(monitor.sliding_window.data) < Len(hist.samples)

\* the number of responses a connection has been handed in full
FullResponses(i) == hist.delivered[i] \div RespLen

\* C1: Framer completion determinism.  However the network cuts the stream of
\* pipelined responses into chunks, a connection reports completion exactly
\* once per response, on the chunk that delivers the response's last byte: at
\* every moment its completions number the responses delivered in full.
C1_CompletionOncePerResponse ==
    \A i \in Conns : conn[i].completions = FullResponses(i)

RECURSIVE SumOver(_, _)
SumOver(f, S) ==
    IF S = {} THEN 0
    ELSE LET x == CHOOSE y \in S : TRUE IN f[x] + SumOver(f, S \ {x})

\* C4: Byte conservation.  The future of a download connection is resolved
\* with the number of bytes (header and body) handed to its data_received over
\* its lifetime, and the total main / upload_main returns is the exact sum of
\* the results of the pool's connections, under every interleaving of their
\* data-arrival and close events.
C4_ByteConservation ==
    /\ \A i \in Conns :
          (env.role = "Download" /\ conn[i].complete # None)
             => conn[i].complete = hist.delivered[i]
    /\ main_task.pc = "returned" =>
          /\ \A i \in Conns : conn[i].complete # None
          /\ main_task.result = SumOver([i \in Conns |-> conn[i].complete], Conns)

\* main has returned the total of a download in which two connections each
\* received data, interleaved, and were closed
C4_Witness ==
    /\ main_task.pc = "returned"
    /\ env.role = "Download"
    /\ \E i, j \in Conns : i # j /\ conn[i].complete > 0 /\ conn[j].complete > 0
    /\ main_task.result > 0

\* C5: Connect-failure isolation.  When establishing the connection of a pool
\* member fails, the run is not aborted: main keeps creating or gathering (or
\* has returned a total), and the failed member counts as 0 bytes.
C5_ConnectFailureIsolated ==
    \A i \in hist.failed :
        /\ main_task.pc \in {"creating", "gathering", "returned"}
        /\ conn[i].complete = 0

\* a connection that can no longer finish a response: the header is received
\* and more body bytes are counted than declared.  The counter only grows, the
\* test of line 102 / 161 never succeeds again, so the connection neither sends
\* a request nor closes: unless the peer closes, its future stays pending and
\* gather never returns.
CannotComplete(c) ==
    /\ c.state = "open"
    /\ c.header_received
    /\ c.content_bytes_received > c.content_length

\* C6: Run termination.  Against a server that answers every request with a
\* complete well-formed response, delivered in arbitrary chunks, every
\* connection eventually closes and the orchestrator returns: no connection
\* ever gets to where it cannot complete a response any more.
C6_EveryConnectionCanStillClose ==
    \A i \in Conns : ~CannotComplete(conn[i])

\* C7: Close only at response boundaries.  A connection that closed its socket
\* did so with a full response framed (header received, body-received equal to
\* the declared length) and with no response partially received.
C7_CloseOnlyAtResponseBoundary ==
    \A i \in Conns :
        conn[i].close_called =>
            /\ hist.delivered[i] % RespLen = 0
            /\ conn[i].header_received
            /\ conn[i].content_bytes_received = conn[i].content_length

\* C8: Content-Length parse failure.  Once the header block with a
\* Content-Length value that is no number has arrived, the connection has
\* signalled an error and is aborted: it framed no response and sent no
\* further request.
C8_NonNumericLengthAborts ==
    env.resp = "nondigit" =>
        \A i \in Conns :
            hist.delivered[i] >= HeaderLen =>
                /\ conn[i].raised
                /\ conn[i].state \in {"closing", "closed"}
                /\ conn[i].completions = 0
                /\ conn[i].requests = 1

C9_Step(i) ==
    /\ conn'[i].requests > conn[i].requests =>
          /\ ~conn'[i].header_received
          /\ conn'[i].rx_buffer = <<>>
          /\ conn'[i].content_bytes_received = 0
    /\ (conn[i].header_received /\ conn'[i].header_received) =>
          conn'[i].content_length = conn[i].content_length

\* C9: Framer reset on re-request.  Whenever a download connection issues a
\* request its framer is at "headers not yet received" with an empty receive
\* buffer and a body-received counter of zero; and while header-received stays
\* true the declared content length does not change.
C9_FramerResetOnRequest ==
    [][env.role = "Download" => \A i \in Conns : C9_Step(i)]_vars

\* C10: Content-Length 0 edge case.  A response with Content-Length: 0, or
\* with no Content-Length field, is reported complete exactly when its header
\* terminator has arrived, however the header block is cut into chunks, and
\* no body byte is counted for it.
C10_ZeroLengthCompletesAtTerminator ==
    env.resp \in {"zero", "absent"} =>
        \A i \in Conns :
            /\ conn[i].completions = hist.delivered[i] \div HeaderLen
            /\ conn[i].header_received => conn[i].content_bytes_received = 0

\* request line and headers plus payload of one POST
C11_SentPerRequest == PostTemplateLen + UrlLen + PayloadLen

C11_Totals ==
    env.role = "Upload" =>
        /\ \A i \in Conns :
              /\ conn[i].bytes_sent = conn[i].requests * C11_SentPerRequest
              /\ conn[i].complete # None =>
                    conn[i].complete = conn[i].requests * C11_SentPerRequest
        /\ monitor.bytes_received =
              SumOver([i \in Conns |-> conn[i].requests], Conns) * C11_SentPerRequest

C11_Step ==
    env.role = "Upload" =>
        /\ \A i \in Conns :
              \/ /\ conn'[i].requests = conn[i].requests
                 /\ conn'[i].bytes_sent = conn[i].bytes_sent
              \/ /\ conn'[i].requests = conn[i].requests + 1
                 /\ conn'[i].bytes_sent = conn[i].bytes_sent + C11_SentPerRequest
                 /\ monitor'.bytes_received =
                       monitor.bytes_received + C11_SentPerRequest
                 /\ LET d == monitor'.sliding_window.data
                    IN  d # <<>> /\ d[Len(d)] = <<now, C11_SentPerRequest>>
        /\ (\A i \in Conns : conn'[i].requests = conn[i].requests) =>
              /\ monitor'.bytes_received = monitor.bytes_received
              /\ monitor'.sliding_window = monitor.sliding_window

\* C11: Upload accounting.  In an upload every request issued adds exactly
\* the length of its request line and headers plus the 65536 payload bytes to
\* the connection's bytes_sent and to the Monitor, with a sample stamped at the
\* time of sending; a step that issues no request (response data arriving, the
\* peer closing, connection_lost) leaves bytes_sent, the Monitor's cumulative
\* bytes and the rate window unchanged; so the result of an upload connection
\* is the number of requests it issued times that length.
C11_UploadAccounting == []C11_Totals /\ [][C11_Step]_vars

\* upload_main has returned; a connection read a response, issued a second
\* request for it and resolved its future
C11_Witness ==
    /\ env.role = "Upload"
    /\ main_task.pc = "returned"
    /\ \E i \in Conns :
          /\ conn[i].requests >= 2
          /\ hist.delivered[i] >= RespLen
          /\ conn[i].complete = conn[i].requests * C11_SentPerRequest

\* a connection's own running total
C12_RunningTotal(i) ==
    IF env.role = "Download" THEN conn[i].bytes_received ELSE conn[i].bytes_sent

\* C12: No lost updates on the shared Monitor.  Under every interleaving of
\* the connections' add() calls the Monitor's cumulative byte count equals the
\* sum of all n passed so far, which equals the sum of the connections' own
\* running totals (bytes_received of a download, bytes_sent of an upload; for
\* a download also the bytes the transports handed over), and the rate window
\* holds exactly the samples inside the window with their exact sum.
C12_NoLostUpdates ==
    /\ monitor.bytes_received = SumValues(hist.samples)
    /\ monitor.bytes_received =
          SumOver([i \in Conns |-> C12_RunningTotal(i)], Conns)
    /\ env.role = "Download" =>
          monitor.bytes_received = SumOver(hist.delivered, Conns)
    /\ LET w == monitor.sliding_window
       IN  /\ w.sum = SumValues(w.data)
           /\ w.data = IF hist.last_call = None THEN <<>>
                       ELSE InWindow(hist.last_call)

\* a download in which one connection's add() came between two add() calls
\* of another connection (the halves of one response around a whole one)
C12_Witness ==
    /\ env.role = "Download"
    /\ Len(hist.samples) >= 3
    /\ hist.samples[1][2] + hist.samples[3][2] = RespLen
    /\ hist.samples[2][2] = RespLen
    /\ \E i, j \in Conns :
          i # j /\ conn[i].bytes_received = RespLen /\ conn[j].bytes_received = RespLen

\* the bytes a connection has transferred so far
C13_Transferred(i) ==
    IF env.role = "Download" THEN hist.delivered[i]
    ELSE conn[i].requests * C11_SentPerRequest

C13_Step(i) ==
    \* the step in which the peer's close is seen changes nothing but the
    \* transport's state: no request, no exception
    /\ (hist'.eofs = hist.eofs + 1 /\ conn'[i] # conn[i]) =>
          /\ conn[i].state = "open"
          /\ conn'[i] = [conn[i] EXCEPT !.state = "closing"]
    \* a connection that is closing or closed issues no request
    /\ conn[i].state \in {"closing", "closed"} =>
          conn'[i].requests = conn[i].requests
    \* the future is resolved once, with the bytes transferred so far
    /\ conn[i].complete # None => conn'[i].complete = conn[i].complete
    /\ (conn[i].complete = None /\ conn'[i].complete # None) =>
          /\ conn[i].state = "closing"
          /\ conn'[i].complete = C13_Transferred(i)

\* C13: Remote close is a clean end.  When the peer closes the stream, also
\* in the middle of a response, the connection issues no further request, its
\* future is resolved exactly once, with the bytes transferred so far, and no
\* error reaches the orchestrator (no exception is raised by the close, and
\* main fails for nothing but a connection that could not be established).
C13_RemoteCloseCleanEnd ==
    /\ [](main_task.pc = "raised" => hist.failed # {})
    /\ [][\A i \in Conns : C13_Step(i)]_vars

\* the peer closed a download connection inside a response; connection_lost
\* has resolved the future with the bytes received, no exception was raised
\* and main has returned the total
C13_Witness ==
    /\ env.role = "Download"
    /\ main_task.pc = "returned"
    /\ hist.eofs = 1
    /\ \E i \in Conns :
          /\ conn[i].state = "closed"
          /\ hist.delivered[i] % RespLen # 0
          /\ ~conn[i].raised /\ ~conn[i].close_called
          /\ conn[i].complete = hist.delivered[i]

\* how many of the things printed are newlines
C14_Newlines == Len(SelectSeq(stdout, LAMBDA x : x = "newline"))

C14_NewlineIsLast ==
    /\ C14_Newlines = IF monitor.running THEN 0 ELSE 1
    /\ ~monitor.running => stdout[Len(stdout)] = "newline"

C14_Step ==
    /\ stdout' # stdout =>
          /\ monitor.running
          /\ \/ monitor'.running /\ stdout' = Append(stdout, "rate")
             \/ ~monitor'.running /\ stdout' = Append(stdout, "newline")
    /\ (monitor.running /\ ~monitor'.running) => stdout' = Append(stdout, "newline")

\* C14: Console output ordering.  Over every sequence of add() calls at
\* non-decreasing times the newline is printed exactly once, by the call that
\* flips running to false; that call prints no rate line, and no later call
\* prints anything: the newline is the last thing the Monitor prints.
C14_ConsoleOutputOrdering == []C14_NewlineIsLast /\ [][C14_Step]_vars

\* a rate line, then the flip with its newline, then one more add() after it
C14_Witness ==
    /\ stdout = <<"rate", "newline">>
    /\ Len(hist.samples) = 3
    /\ hist.samples[2][1] >= monitor.end_time
    /\ hist.samples[3][1] > hist.samples[2][1]

\* C15: Pipelining discipline.  However the responses are cut into chunks, a
\* connection has at most one request whose response it has not received in
\* full: the requests it issued minus the responses delivered in full is 0
\* or 1.
C15_AtMostOneOutstanding ==
    \A i \in Conns :
        conn[i].requests - FullResponses(i) \in {0, 1}

\* what the framer of a connection holds
C16_FramerState(c) ==
    [header_received |-> c.header_received,
     rx_buffer |-> c.rx_buffer,
     content_length |-> IF c.header_received THEN c.content_length ELSE None,
     content_bytes_received |->
         IF c.header_received THEN c.content_bytes_received ELSE None,
     completions |-> c.completions,
     raised |-> c.raised]

\* C16: Upload framing mirrors download framing.  Handed the same chunks from
\* a fresh connection on, the upload protocol's framer is in the same state as
\* the download protocol's (header received, declared length, body bytes
\* received, buffer) and has reported completion at the same chunks, also when
\* the first chunk does not hold the whole header block.
C16_UploadMirrorsDownload ==
    conn[1].state # "none" => C16_FramerState(conn[2]) = C16_FramerState(conn[1])

C17_Step ==
    IF Len(hist'.samples) = Len(hist.samples) + 1
    THEN \* an add() call
         IF now < monitor.end_time /\ now >= monitor.next_report
         THEN /\ stdout' = Append(stdout, "rate")
              /\ monitor'.next_report = monitor.next_report + ReportInterval
         ELSE /\ monitor'.next_report = monitor.next_report
              /\ stdout' \in {stdout, Append(stdout, "newline")}
    ELSE /\ monitor'.next_report = monitor.next_report
         /\ stdout' = stdout

\* C17: Report scheduling.  An add() call made before the end time prints a
\* rate line if and only if the time is at or after the next-report time, and
\* then moves the next-report time on by exactly one report interval, however
\* many intervals have passed; every other add() call prints no rate line and
\* leaves the next-report time as it is.  A call prints at most one line.
C17_ReportScheduling == [][C17_Step]_vars

\* two intervals have passed before the first add(): it and the next add() at
\* the same time print one rate line each, each moving the next-report time on
\* by one interval
C17_Witness ==
    /\ stdout = <<"rate", "rate">>
    /\ Len(hist.samples) = 2
    /\ hist.samples[1][1] = 2 * ReportInterval
    /\ hist.samples[2][1] = 2 * ReportInterval
    /\ monitor.next_report = 3 * ReportInterval

\* C18: No request after stop.  Once the Monitor's running flag is false no
\* connection of the pool writes a request any more, pool members connected
\* after the flag fell included.
C18_NoRequestAfterStop ==
    [][~monitor.running => \A i \in Conns : conn'[i].requests = conn[i].requests]_vars

\* C19: Body count never overshoots.  Against a server that answers every
\* request with one response of Content-Length: N and exactly N body bytes,
\* whenever header-received is true the body-received counter is at most the
\* declared content length, however the responses are cut into chunks.
C19_BodyCountWithinDeclared ==
    env.resp \in {"body", "zero"} =>
        \A i \in Conns :
            conn[i].header_received =>
                conn[i].content_bytes_received <= conn[i].content_length

====
